---- MODULE Spec2Model ----
(***************************************************************************)
(* Model of the customer-support RAG backend (src/backend).                *)
(*                                                                         *)
(* Text is modelled as a sequence of tokens: a token is an atomic piece of *)
(* text, the string it stands for is the concatenation of the tokens, and  *)
(* the empty string is the empty sequence.  The fixed sentences of the     *)
(* prompt are single tokens; '{' and '}' are tokens of their own because   *)
(* the prompt template gives them a meaning.                               *)
(*                                                                         *)
(* Three specifications share the variables:                               *)
(*   SpecStore  - ingest_document / search_documents on the vector store   *)
(*   SpecPrompt - _build_system_prompt as a pure function                  *)
(*   SpecTurn   - one chat turn through routes/chat.py and agent.py        *)
(***************************************************************************)
EXTENDS Integers, Sequences, FiniteSets, TLC

VARIABLES
    collections,     \* Chroma: collection name -> sequence of stored chunks
    search_result,   \* value returned by the last search_documents call
    ingested,        \* value returned by the last ingest_document call
    integrations,    \* rows of the integrations table, in the order the query returns them
    chat_logs,       \* rows of the chat_logs table
    pc,              \* position of the request handler
    request,         \* the request being served
    kb_context,      \* agent.py local: kb_context
    client_context,  \* agent.py local: client_context
    system,          \* agent.py local: system
    retrieval,       \* what happened inside search_documents during the turn
    api_calls,       \* HTTP requests issued by call_client_api, with their results
    llm_calls,       \* messages sent to the generation model
    pending,         \* fragments the generation model has not produced yet
    full_response,   \* routes/chat.py event_generator local: full_response
    events,          \* server-sent events emitted to the client
    reply,           \* HTTP response of the non-streaming endpoint
    failed_at,       \* stage whose exception ended the turn ("none" when none)
    connected,       \* whether the consumer of the stream is still connected
    saved_files,     \* files written under DATA_DIR/{tenant_id}/documents/
    knowledge_documents, \* rows of the knowledge_documents table
    runs             \* results of chat and chat_stream run on the same inputs

storeVars == <<collections, search_result, ingested>>
turnVars  == <<integrations, chat_logs, pc, request, kb_context, client_context,
               system, retrieval, api_calls, llm_calls, pending, full_response,
               events, reply, failed_at, connected>>
auxVars == <<saved_files, knowledge_documents, runs>>
vars == <<collections, search_result, ingested, integrations, chat_logs, pc, request,
          kb_context, client_context, system, retrieval, api_calls, llm_calls,
          pending, full_response, events, reply, failed_at, connected,
          saved_files, knowledge_documents, runs>>

(***************************************************************************)
(* Bounds                                                                  *)
(***************************************************************************)
MaxDocChunks == 2    \* chunks one ingested file splits into
MaxCollection == 3   \* chunks held by one collection
MaxK == 2            \* largest k passed to search_documents in SpecStore
MaxCtxLen == 2       \* tokens of a context string in SpecPrompt
MaxFragments == 2    \* fragments one generation call produces
MaxMsgLen == 5       \* tokens of a message in SpecDetect

(***************************************************************************)
(* Generic helpers on token sequences                                      *)
(***************************************************************************)
Range(s) == {s[i] : i \in 1..Len(s)}

SeqsUpTo(S, n) == UNION {[1..m -> S] : m \in 0..n}

\* str.join: the separator between consecutive items
RECURSIVE JoinWith(_, _)
JoinWith(sep, ss) ==
    IF ss = <<>> THEN <<>>
    ELSE IF Len(ss) = 1 THEN Head(ss)
    ELSE Head(ss) \o sep \o JoinWith(sep, Tail(ss))

\* whether pat occurs in s as a contiguous run (Python's `pat in s`)
Contains(s, pat) ==
    \E i \in 1..(Len(s) - Len(pat) + 1) : SubSeq(s, i, i + Len(pat) - 1) = pat

\* injective sequences of length n over S
InjSeqs(S, n) == {q \in [1..n -> S] : \A i, j \in 1..n : i # j => q[i] # q[j]}

Min(a, b) == IF a < b THEN a ELSE b

(***************************************************************************)
(* Vector store: knowledge/ingest.py, knowledge/search.py                  *)
(***************************************************************************)
Tenants == {"t1", "t2"}

ChunkTexts == {<<"Returns accepted within 30 days.">>, <<"{", "sku", "}">>}

\* the single shared collection of the legacy db.py store
CollectionName_shared(tenant_id) == <<"customer_support_kb">>

\* f"tenant_{tenant_id}"
CollectionName(tenant_id) == <<"tenant_", tenant_id>>

CollectionNames == {CollectionName(t) : t \in Tenants}

\* A stored chunk: the Document's page_content; ingested_for records the
\* tenant_id argument of the ingest_document call that stored it (the code
\* keeps no such field: the collection is the only partition).
Chunk(text, tenant_id) == [page_content |-> text, ingested_for |-> tenant_id]

\* Files as the loader and splitter see them: the chunks they split into
\* (none for an empty file).
Files == SeqsUpTo(ChunkTexts, MaxDocChunks)

\* Chroma.similarity_search(query, k): the k most similar chunks of the one
\* collection.  The embedding is a remote service, so the ranking is any
\* order of distinct stored chunks; only the length and the collection are
\* fixed.
SimilaritySearch(coll, k) ==
    {[i \in 1..Min(k, Len(coll)) |-> coll[q[i]]] :
        q \in InjSeqs(1..Len(coll), Min(k, Len(coll)))}

\* search_documents without its try/except: the failure propagates
SearchDocuments_propagates(store, tenant_id, k, store_ok) ==
    IF store_ok
    THEN {[raised |-> FALSE, docs |-> d] :
             d \in SimilaritySearch(store[CollectionName(tenant_id)], k)}
    ELSE {[raised |-> TRUE, docs |-> <<>>]}

\* search_documents: try: store.similarity_search(query, k=k)
\*                   except Exception: return []
\* store_ok is whether the embedding call and the store access succeeded.
\* Gives the possible outcomes: the returned list, or a raised exception.
SearchDocuments(store, tenant_id, k, store_ok) ==
    IF store_ok
    THEN {[raised |-> FALSE, docs |-> d] :
             d \in SimilaritySearch(store[CollectionName(tenant_id)], k)}
    ELSE {[raised |-> FALSE, docs |-> <<>>]}

NoSearch == [tenant_id |-> "none", docs |-> <<>>, raised |-> FALSE, k |-> 0]
NoIngest == [tenant_id |-> "none", result |-> 0]

\* ingest_document(file_path, tenant_id): load, split, add_documents, return
\* len(chunks).  It returns 0 before touching the store when the file gives
\* no chunks.  add_ok is whether embedding and the store write succeeded;
\* when they do not, the exception leaves the collection as it was.
IngestDocument(tenant_id, file, add_ok) ==
    /\ Len(collections[CollectionName(tenant_id)]) + Len(file) <= MaxCollection
    /\ IF Len(file) = 0
       THEN /\ ingested' = [tenant_id |-> tenant_id, result |-> 0]
            /\ UNCHANGED collections
       ELSE IF ~add_ok
       THEN /\ ingested' = [tenant_id |-> tenant_id, result |-> -1]
            /\ UNCHANGED collections
       ELSE /\ ingested' = [tenant_id |-> tenant_id, result |-> Len(file)]
            /\ collections' = [collections EXCEPT ![CollectionName(tenant_id)] =
                    @ \o [i \in 1..Len(file) |-> Chunk(file[i], tenant_id)]]
    /\ UNCHANGED <<search_result>>
    /\ UNCHANGED turnVars
    /\ UNCHANGED auxVars

Search(query_tenant, k, store_ok) ==
    /\ \E r \in SearchDocuments(collections, query_tenant, k, store_ok) :
          search_result' = [tenant_id |-> query_tenant, docs |-> r.docs,
                            raised |-> r.raised, k |-> k]
    /\ UNCHANGED <<collections, ingested>>
    /\ UNCHANGED turnVars
    /\ UNCHANGED auxVars

(***************************************************************************)
(* Python values carried by the client API result                          *)
(***************************************************************************)
PyNone == [type |-> "none", value |-> <<>>]
PyText(t) == [type |-> "str", value |-> t]
PyDict(items) == [type |-> "dict", value |-> items]

\* truth value of a Python object: None, "" and {} are false
Truthy(v) == v.type # "none" /\ v.value # <<>>

\* repr of one "key": "value" item of a parsed JSON object
PyReprItem(tok) ==
    CASE tok = "\"status\": \"shipped\"" -> "'status': 'shipped'"
      [] tok = "\"error\": \"not found\"" -> "'error': 'not found'"
      [] OTHER -> tok

\* str(v)
PyStr(v) ==
    CASE v.type = "none" -> <<"None">>
      [] v.type = "dict" ->
            <<"{">> \o [i \in 1..Len(v.value) |-> PyReprItem(v.value[i])] \o <<"}">>
      [] OTHER -> v.value

(***************************************************************************)
(* Client API caller: integrations/client_api.py                           *)
(***************************************************************************)
Row(tenant_id, type, base_url, api_key, auth_type) ==
    [tenant_id |-> tenant_id, type |-> type, base_url |-> base_url,
     api_key |-> api_key, auth_type |-> auth_type]

\* a missing column value (api_key and auth_type are nullable)
Null == "NULL"

\* the query without its `if integration_type:` filter
GetTenantIntegration_noTypeFilter(table, tenant_id, integration_type) ==
    LET matches == {i \in 1..Len(table) : table[i].tenant_id = tenant_id}
    IN IF matches = {} THEN 0
       ELSE CHOOSE i \in matches : \A j \in matches : i <= j

\* position of the first row the query returns, 0 for None;
\* integration_type is Null when the caller passes no filter
GetTenantIntegration(table, tenant_id, integration_type) ==
    LET matches == {i \in 1..Len(table) :
                       /\ table[i].tenant_id = tenant_id
                       /\ (integration_type # Null => table[i].type = integration_type)}
    IN IF matches = {} THEN 0
       ELSE CHOOSE i \in matches : \A j \in matches : i <= j

\* auth_type compared without .lower()
LowerAuth_identity(a) == a

\* str.lower() of the auth_type values in use
LowerAuth(a) == IF a = "Bearer" THEN "bearer" ELSE a

\* _build_headers: a set of <<name, value>> pairs
BuildHeaders(integration) ==
    LET auth_type == LowerAuth(IF integration.auth_type = Null THEN "api_key"
                               ELSE integration.auth_type)
        base == {<<"Content-Type", <<"application/json">>>>,
                 <<"Accept", <<"application/json">>>>}
    IN IF integration.api_key # Null
       THEN IF auth_type = "bearer"
            THEN base \cup {<<"Authorization", <<"Bearer ", integration.api_key>>>>}
            ELSE base \cup {<<"X-API-Key", <<integration.api_key>>>>}
       ELSE base

\* str.rstrip("/")
RECURSIVE RStripSlash(_)
RStripSlash(t) ==
    IF t # <<>> /\ t[Len(t)] = "/" THEN RStripSlash(SubSeq(t, 1, Len(t) - 1)) ELSE t

\* url = base_url.rstrip("/") + (endpoint if endpoint.startswith("/") else "/" + endpoint)
BuildUrl(base_url, endpoint) ==
    RStripSlash(base_url) \o
        (IF endpoint # <<>> /\ Head(endpoint) = "/" THEN endpoint ELSE <<"/">> \o endpoint)

\* What the tenant's system does with one request: a transport failure
\* (requests.RequestException, with its message) or an HTTP response.
Statuses == {200, 304, 404}
RawBodies == {<<>>, <<"shipped">>, <<"{", "}">>,
              <<"{", "\"status\": \"shipped\"", "}">>}
Transport(msg) == [kind |-> "transport", status |-> 0, raw |-> msg]
Response(status, raw) == [kind |-> "response", status |-> status, raw |-> raw]
ApiOutcomes == {Transport(<<"Read timed out.">>)}
                  \cup {Response(st, b) : st \in Statuses, b \in RawBodies}

\* r.json() when the text parses as JSON, else r.text
ParseBody(raw) ==
    IF raw = <<"null">> THEN PyNone
    ELSE IF Len(raw) >= 2 /\ Head(raw) = "{" /\ raw[Len(raw)] = "}"
    THEN PyDict(SubSeq(raw, 2, Len(raw) - 1))
    ELSE PyText(raw)

\* requests.Response.ok: raise_for_status() raises for 400..599 only
ResponseOk(status) == ~(400 <= status /\ status < 600)

\* status_code None
NoStatus == 0

Result(ok, status_code, body, error) ==
    [ok |-> ok, status_code |-> status_code, body |-> body, error |-> error]

\* _call_impl(db, tenant_id, endpoint, "GET", None, None, integration_type).
\* Gives the returned dict and the HTTP requests issued (none or one).
\* outcome is what the tenant's system does with the request.
CallImpl(table, tenant_id, endpoint, integration_type, outcome) ==
    LET idx == GetTenantIntegration(table, tenant_id, integration_type)
    IN IF idx = 0
       THEN [result |-> Result(FALSE, NoStatus, PyNone,
                               PyText(<<"No integration configured">>)),
             http |-> <<>>]
       ELSE LET integration == table[idx]
                req == [method |-> "GET",
                        url |-> BuildUrl(integration.base_url, endpoint),
                        headers |-> BuildHeaders(integration),
                        row |-> idx]
            IN IF outcome.kind = "transport"
               THEN [result |-> Result(FALSE, NoStatus, PyNone, PyText(outcome.raw)),
                     http |-> <<req>>]
               ELSE LET response_body == ParseBody(outcome.raw)
                    IN [result |-> Result(200 <= outcome.status /\ outcome.status < 300,
                                          outcome.status,
                                          response_body,
                                          IF ResponseOk(outcome.status) THEN PyNone
                                          ELSE PyText(PyStr(response_body))),
                        http |-> <<req>>]

\* one call_client_api invocation as the turn records it
ApiCall(endpoint, integration_type, res) ==
    [endpoint |-> endpoint, integration_type |-> integration_type,
     http |-> res.http, result |-> res.result]

(***************************************************************************)
(* Live-data detector: agent.py _detect_and_fetch_client_data              *)
(***************************************************************************)
WS == {" "}
OrderKeywords == {"#", "number", "id"}
Digits == {"7", "8"}

\* the message searched as typed, without .lower()
Lower_identity(s) == s

\* str.lower(), token by token
LowerToken(tok) ==
    CASE tok \in {"Order", "ORDER"} -> "order"
      [] tok \in {"Customer", "CUSTOMER"} -> "customer"
      [] tok \in {"My", "MY"} -> "my"
      [] tok \in {"Account", "ACCOUNT"} -> "account"
      [] tok = "Where" -> "where"
      [] tok = "Is" -> "is"
      [] tok = "Record" -> "record"
      [] tok = "Hours?" -> "hours?"
      [] tok = "Number" -> "number"
      [] tok \in {"Id", "ID"} -> "id"
      [] tok = "Hello" -> "hello"
      [] OTHER -> tok
Lower(s) == [i \in 1..Len(s) |-> LowerToken(s[i])]

\* first position >= i whose token is not in S (Len(s)+1 when none)
RECURSIVE SkipWhile(_, _, _)
SkipWhile(s, i, S) ==
    IF i <= Len(s) /\ s[i] \in S THEN SkipWhile(s, i + 1, S) ELSE i

\* position of the first digit when order\s*(?:#|number|id)?\s*[:\s]*(\d+)
\* matches with "order" at position i, else 0
OrderMatchAt(s, i) ==
    IF s[i] # "order" THEN 0
    ELSE LET a == SkipWhile(s, i + 1, WS)
             b == IF a <= Len(s) /\ s[a] \in OrderKeywords THEN a + 1 ELSE a
             c == SkipWhile(s, b, WS \cup {":"})
         IN IF c <= Len(s) /\ s[c] \in Digits THEN c ELSE 0

\* re.search: the leftmost match; group(1) is the whole run of digits
OrderSearch(s) ==
    LET starts == {i \in 1..Len(s) : OrderMatchAt(s, i) # 0}
    IN IF starts = {} THEN [matched |-> FALSE, order_id |-> <<>>]
       ELSE LET i == CHOOSE x \in starts : \A y \in starts : x <= y
                c == OrderMatchAt(s, i)
            IN [matched |-> TRUE,
                order_id |-> SubSeq(s, c, SkipWhile(s, c, Digits) - 1)]

WantsCustomer(message_lower) ==
    \/ Contains(message_lower, <<"customer">>)
    \/ Contains(message_lower, <<"my", " ", "account">>)

OrderEndpoint(order_id) == <<"/", "orders", "/">> \o order_id
CustomerEndpoint == <<"/", "customers", "/", "me">>

OrderResponseLine(order_id, body) ==
    <<"\n\n[Client system response for order ">> \o order_id \o <<"]:\n">>
        \o PyStr(body) \o <<"\n">>
CustomerResponseLine(body) ==
    <<"\n\n[Client system response]:\n">> \o PyStr(body) \o <<"\n">>
UnavailableLine(error) ==
    <<"\n\n[Client system unavailable: ">> \o PyStr(error) \o <<"]\n">>

\* the integration_type argument of the order lookup: the call passes no
\* integration_type keyword, so the parameter keeps its default None
OrderIntegrationType(table, tenant_id) == Null

\* the customer branch is a second `if`: it is tried whenever the order
\* branch did not return
TryCustomer(order_matched, message_lower) == WantsCustomer(message_lower)

\* if result.get("error"):
HasError(result) == Truthy(result.error)

\* _detect_and_fetch_client_data(tenant_id, message, db): the returned
\* context and the call_client_api invocations made, in order.  o1 is the
\* outcome of the order request, o2 of the customer request.
DetectAndFetchClientData(table, tenant_id, message, o1, o2) ==
    LET message_lower == Lower(message)
        order_match == OrderSearch(message_lower)
        order_id == order_match.order_id
        itype == OrderIntegrationType(table, tenant_id)
        r1 == CallImpl(table, tenant_id, OrderEndpoint(order_id), itype, o1)
        c1 == ApiCall(OrderEndpoint(order_id), itype, r1)
        r2 == CallImpl(table, tenant_id, CustomerEndpoint, Null, o2)
        c2 == ApiCall(CustomerEndpoint, Null, r2)
        before == IF order_match.matched THEN <<c1>> ELSE <<>>
    IN IF order_match.matched /\ r1.result.ok /\ Truthy(r1.result.body)
       THEN [context |-> OrderResponseLine(order_id, r1.result.body), calls |-> <<c1>>]
       ELSE IF order_match.matched /\ HasError(r1.result)
       THEN [context |-> UnavailableLine(r1.result.error), calls |-> <<c1>>]
       ELSE IF TryCustomer(order_match.matched, message_lower)
       THEN IF r2.result.ok /\ Truthy(r2.result.body)
            THEN [context |-> CustomerResponseLine(r2.result.body),
                  calls |-> before \o <<c2>>]
            ELSE IF HasError(r2.result)
            THEN [context |-> UnavailableLine(r2.result.error),
                  calls |-> before \o <<c2>>]
            ELSE [context |-> <<>>, calls |-> before \o <<c2>>]
       ELSE [context |-> <<>>, calls |-> before]

(***************************************************************************)
(* Context assembler: agent.py _format_docs, _build_system_prompt          *)
(***************************************************************************)
\* "\n\n---\n\n".join(doc.page_content for doc in docs)
FormatDocs(docs) ==
    JoinWith(<<"\n\n---\n\n">>, [i \in 1..Len(docs) |-> docs[i].page_content])

FallbackSentence == "I will connect you to human support."
FallbackInstruction ==
    <<"\nIf the context does not contain enough information to answer the question, respond with exactly: \"",
      FallbackSentence, "\"">>
PromptHead ==
    << <<"You are a helpful customer support agent.">>,
       <<"Answer ONLY based on the provided company documents and, when present, the live client system data.">>,
       <<"Be concise and professional.">> >>
KbSection(kb) == <<"\nCompany documents:\n">> \o kb
LiveSection(cc) == <<"\nLive data from client system (use this to answer):\n">> \o cc

\* the two context sections appended in the other order
BuildSystemPrompt_liveFirst(kb, cc) ==
    JoinWith(<<"\n">>,
        PromptHead
          \o (IF cc # <<>> THEN <<LiveSection(cc)>> ELSE <<>>)
          \o (IF kb # <<>> THEN <<KbSection(kb)>> ELSE <<>>)
          \o <<FallbackInstruction>>)

\* the fallback instruction given only when there is no context at all
BuildSystemPrompt_fallbackWhenEmpty(kb, cc) ==
    JoinWith(<<"\n">>,
        PromptHead
          \o (IF kb # <<>> THEN <<KbSection(kb)>> ELSE <<>>)
          \o (IF cc # <<>> THEN <<LiveSection(cc)>> ELSE <<>>)
          \o (IF kb = <<>> /\ cc = <<>> THEN <<FallbackInstruction>> ELSE <<>>))

\* _build_system_prompt(kb_context, client_context)
BuildSystemPrompt(kb, cc) ==
    JoinWith(<<"\n">>,
        PromptHead
          \o (IF kb # <<>> THEN <<KbSection(kb)>> ELSE <<>>)
          \o (IF cc # <<>> THEN <<LiveSection(cc)>> ELSE <<>>)
          \o <<FallbackInstruction>>)

(***************************************************************************)
(* Generation orchestrator: agent.py chat, chat_stream                     *)
(***************************************************************************)
\* position of the first "}" at or after i, 0 when none
RECURSIVE FindClose(_, _)
FindClose(t, i) ==
    IF i > Len(t) THEN 0 ELSE IF t[i] = "}" THEN i ELSE FindClose(t, i + 1)

\* ChatPromptTemplate.from_messages([("system", system), ...]) followed by
\* invoke({"question": message}): the system text is an f-string template.
\* "{{" and "}}" are escapes, "{name}" is a variable; only "question" is
\* supplied, so any other variable, an unclosed "{" or a lone "}" raises.
RECURSIVE FormatTemplate(_, _)
FormatTemplate(t, question) ==
    IF t = <<>> THEN [ok |-> TRUE, text |-> <<>>]
    ELSE IF Head(t) = "{" /\ Len(t) >= 2 /\ t[2] = "{"
    THEN LET r == FormatTemplate(SubSeq(t, 3, Len(t)), question)
         IN [ok |-> r.ok, text |-> <<"{">> \o r.text]
    ELSE IF Head(t) = "{"
    THEN LET j == FindClose(t, 2)
         IN IF j = 0 \/ SubSeq(t, 2, j - 1) # <<"question">>
            THEN [ok |-> FALSE, text |-> <<>>]
            ELSE LET r == FormatTemplate(SubSeq(t, j + 1, Len(t)), question)
                 IN [ok |-> r.ok, text |-> question \o r.text]
    ELSE IF Head(t) = "}" /\ Len(t) >= 2 /\ t[2] = "}"
    THEN LET r == FormatTemplate(SubSeq(t, 3, Len(t)), question)
         IN [ok |-> r.ok, text |-> <<"}">> \o r.text]
    ELSE IF Head(t) = "}"
    THEN [ok |-> FALSE, text |-> <<>>]
    ELSE LET r == FormatTemplate(Tail(t), question)
         IN [ok |-> r.ok, text |-> <<Head(t)>> \o r.text]

\* the messages the chain sends to the model: the formatted system template
\* and the human template "{question}"
PromptMessages(sys, message) ==
    LET r == FormatTemplate(sys, message)
    IN [ok |-> r.ok, system |-> r.text, human |-> message]

\* What the model produces: fragments in output order; "" is the empty
\* fragment a stream may carry.
Fragments == {"", "Hello", " there"}
LLMOutputs == SeqsUpTo(Fragments, MaxFragments)

\* the fragments joined last first: each one put in front of the others
RECURSIVE Concat_reversed(_)
Concat_reversed(frags) ==
    IF frags = <<>> THEN <<>>
    ELSE Concat_reversed(Tail(frags)) \o (IF Head(frags) = "" THEN <<>> ELSE <<Head(frags)>>)

\* "".join(fragments)
RECURSIVE Concat(_)
Concat(frags) ==
    IF frags = <<>> THEN <<>>
    ELSE (IF Head(frags) = "" THEN <<>> ELSE <<Head(frags)>>) \o Concat(Tail(frags))

\* search_documents(query, tenant_id, k=5); _get_kb_context(..., k=5)
DefaultK == 5

\* _get_kb_context: _format_docs(docs) if docs else ""
KbContextOf(search) ==
    IF search.docs # <<>> THEN FormatDocs(search.docs) ELSE <<>>

\* chat's last step: chain.invoke and the text it returns
ChatInvoke(tenant_id, calls, m, out) ==
    [raised |-> ~m.ok,
     searches |-> <<[tenant_id |-> tenant_id, k |-> DefaultK]>>,
     api_calls |-> calls,
     llm_calls |-> IF m.ok THEN <<[system |-> m.system, human |-> m.human]>> ELSE <<>>,
     returned |-> IF m.ok THEN Concat(out) ELSE <<>>]

\* chat from the two contexts on: build the prompt, invoke the chain
ChatWith(tenant_id, message, kb, d, out) ==
    ChatInvoke(tenant_id, d.calls,
               PromptMessages(BuildSystemPrompt(kb, d.context), message), out)

\* chat(tenant_id, message, db) as a function of what its collaborators
\* return: the search result, the outcomes o1, o2 of the client requests
\* and the model output `out`.  Gives the calls made and the returned text.
Chat(table, tenant_id, message, search, o1, o2, out) ==
    ChatWith(tenant_id, message, KbContextOf(search),
             DetectAndFetchClientData(table, tenant_id, message, o1, o2), out)

\* chat_stream's last step: yield the fragments of chain.astream
ChatStreamAstream(tenant_id, calls, m, out) ==
    [raised |-> ~m.ok,
     searches |-> <<[tenant_id |-> tenant_id, k |-> DefaultK]>>,
     api_calls |-> calls,
     llm_calls |-> IF m.ok THEN <<[system |-> m.system, human |-> m.human]>> ELSE <<>>,
     fragments |-> IF m.ok THEN out ELSE <<>>]

\* chat_stream from the two contexts on: build the prompt, stream the chain
ChatStreamWith(tenant_id, message, kb, d, out) ==
    ChatStreamAstream(tenant_id, d.calls,
                      PromptMessages(BuildSystemPrompt(kb, d.context), message), out)

\* chat_stream that leaves the live client data out of the prompt
ChatStream_kbOnly(table, tenant_id, message, search, o1, o2, out) ==
    ChatStreamWith(tenant_id, message, KbContextOf(search),
                   [context |-> <<>>, calls |-> <<>>], out)

\* chat_stream(tenant_id, message, db), likewise: the fragments it yields
ChatStream(table, tenant_id, message, search, o1, o2, out) ==
    ChatStreamWith(tenant_id, message, KbContextOf(search),
                   DetectAndFetchClientData(table, tenant_id, message, o1, o2), out)

(***************************************************************************)
(* Chat endpoints: routes/chat.py                                          *)
(***************************************************************************)
Endpoints == {"stream", "completion"}

\* an uploaded file: its name, whether it holds any byte, and the chunks
\* its content splits into (none for whitespace only)
NoFile == [filename |-> <<>>, has_bytes |-> FALSE, content |-> <<>>]

\* chat and chat_stream run side by side: the inputs both get (env) and
\* what each did
NoEnv == [search |-> [raised |-> FALSE, docs |-> <<>>], o1 |-> "none",
          o2 |-> "none", out |-> <<>>]
NoRuns == [env |-> NoEnv, chat |-> <<>>, stream |-> <<>>]

TurnMessages ==
    { <<>>,
      <<" ">>,
      <<"hours?">>,
      <<"Where", " ", "is", " ", "my", " ", "order", " ", "7", "?">>,
      <<"Customer", " ", "record">>,
      <<"my", " ", "account", ":", " ", "Order", " ", "#", "7", "8">> }

Requests == [endpoint : Endpoints, auth : Tenants, tenant_id : Tenants,
             message : TurnMessages, file : {NoFile}]
NoRequest == [endpoint |-> "none", auth |-> "none", tenant_id |-> "none",
              message |-> <<>>, file |-> NoFile]

\* POST /webhook/whatsapp: the company comes from the API key, the body
\* carries the message only
WebhookRequests ==
    {[endpoint |-> "webhook", auth |-> t, tenant_id |-> t, message |-> m,
      file |-> NoFile] :
        t \in Tenants, m \in TurnMessages \cup {<<" ", "hours?", " ">>}}

\* POST /upload: tenant_id form field and the file
UploadFilenames == {<<>>, <<"faq", ".txt">>, <<"faq", ".exe">>}
UploadRequests ==
    {[endpoint |-> "upload", auth |-> a, tenant_id |-> t, message |-> <<>>,
      file |-> f] :
        a \in Tenants, t \in Tenants,
        f \in {[filename |-> n, has_bytes |-> FALSE, content |-> <<>>] :
                  n \in UploadFilenames}
              \cup {[filename |-> n, has_bytes |-> TRUE, content |-> c] :
                       n \in UploadFilenames, c \in Files}}

\* str(tenant.id) != request.tenant_id guards with no comparison at all
TenantMatches_any(auth, tenant_id) == TRUE

\* the guard `str(tenant.id) != request.tenant_id` does not reject
TenantMatches(auth, tenant_id) == auth = tenant_id

\* str.strip(): leading and trailing whitespace removed
RECURSIVE Strip(_)
Strip(m) ==
    IF m # <<>> /\ Head(m) \in WS THEN Strip(Tail(m))
    ELSE IF m # <<>> /\ m[Len(m)] \in WS THEN Strip(SubSeq(m, 1, Len(m) - 1))
    ELSE m

\* the message the endpoint hands to the agent: the webhook strips it
AgentMessage(req) ==
    IF req.endpoint = "webhook" THEN Strip(req.message) ELSE req.message

\* `if not request.message:` without the strip()
IsBlank_emptyOnly(message) == message = <<>>

\* str.strip() leaves nothing
IsBlank(message) == \A i \in 1..Len(message) : message[i] \in WS

\* integrations tables a deployment can hold
IntegrationTables ==
    { <<>>,
      << Row("t1", "orders", <<"https://shop.example">>, "k1", "Bearer") >>,
      << Row("t1", "crm", <<"https://crm.example", "/">>, "k2", Null),
         Row("t1", "orders", <<"https://shop.example">>, "k1", "bearer") >>,
      << Row("t2", "orders", <<"https://orders.example", "/", "/">>, Null, "api_key") >> }

\* knowledge bases a turn can start from: each collection holds chunks
\* ingested for its own tenant
TurnStores ==
    {[n \in CollectionNames |-> IF n = CollectionName("t1") THEN c ELSE <<>>] :
        c \in {<<>>} \cup {<<Chunk(t, "t1")>> : t \in ChunkTexts}}

ChatLog(tenant_id, message, response) ==
    [tenant_id |-> tenant_id, message |-> message, response |-> response]

NoReply == [status |-> 0, body |-> <<>>]
NoRetrieval == [done |-> FALSE, failed |-> FALSE]

\* {"data": chunk}: sse_starlette sends a dict as ServerSentEvent(**dict), so
\* the event type is the one the dict names, and none (Null) when it names
\* none.  origin records which yield statement produced the event.
ContentEvent(chunk) ==
    [sse |-> [event |-> Null, data |-> <<chunk>>], origin |-> "content"]
ErrorEvent(stage) ==
    [sse |-> [event |-> Null, data |-> <<"[Error: ", stage, "]">>], origin |-> "error"]

\* exception classes `except Exception` catches, with a bare `except:`
CaughtByHandler_bare(exc) == TRUE

\* exception classes the handlers' `except Exception` catches:
\* asyncio.CancelledError and GeneratorExit derive from BaseException
CaughtByHandler(exc) == exc \notin {"CancelledError", "GeneratorExit"}

\* An exception raised at `stage` inside the try block of the endpoint:
\* chat_completion_endpoint answers HTTP 500 with detail=str(e),
\* event_generator yields an error event and ends.  The webhook has no try
\* block: the exception leaves the handler and the framework answers
\* HTTP 500 with its fixed body.
Fail(stage) ==
    /\ failed_at' = stage
    /\ pc' = "done"
    /\ IF request.endpoint = "completion"
       THEN /\ reply' = [status |-> 500, body |-> <<stage>>]
            /\ UNCHANGED events
       ELSE IF request.endpoint = "webhook"
       THEN /\ reply' = [status |-> 500, body |-> <<"Internal Server Error">>]
            /\ UNCHANGED events
       ELSE /\ events' = Append(events, ErrorEvent(stage))
            /\ UNCHANGED reply

\* the checks made before the pipeline starts: the chat endpoints reject
\* a blank message with 400 and a foreign tenant_id with 403; the webhook
\* answers a blank message with {"ok": true, "reply": null}
Validate ==
    /\ pc = "start"
    /\ request.endpoint \in {"stream", "completion", "webhook"}
    /\ IF IsBlank(request.message)
       THEN /\ reply' = (IF request.endpoint = "webhook"
                         THEN [status |-> 200, body |-> <<"reply: null">>]
                         ELSE [status |-> 400, body |-> <<"Message cannot be empty">>])
            /\ failed_at' = "validation"
            /\ pc' = "done"
       ELSE IF request.endpoint # "webhook"
               /\ ~TenantMatches(request.auth, request.tenant_id)
       THEN /\ reply' = [status |-> 403, body |-> <<"tenant_id does not match credentials">>]
            /\ failed_at' = "validation"
            /\ pc' = "done"
       ELSE /\ pc' = "kb"
            /\ UNCHANGED <<reply, failed_at>>
    /\ UNCHANGED <<integrations, chat_logs, request, kb_context, client_context,
                   system, retrieval, api_calls, llm_calls, pending,
                   full_response, events, connected>>
    /\ UNCHANGED storeVars
    /\ UNCHANGED auxVars

\* kb_context = _get_kb_context(tenant_id, message)
GetKbContext(store_ok) ==
    /\ pc = "kb"
    /\ \E r \in SearchDocuments(collections, request.tenant_id, DefaultK, store_ok) :
          /\ retrieval' = [done |-> TRUE, failed |-> ~store_ok]
          /\ IF r.raised
             THEN /\ Fail("retrieval")
                  /\ UNCHANGED kb_context
             ELSE /\ kb_context' = (IF r.docs # <<>> THEN FormatDocs(r.docs) ELSE <<>>)
                  /\ pc' = "client"
                  /\ UNCHANGED <<reply, events, failed_at>>
    /\ UNCHANGED <<integrations, chat_logs, request, client_context, system,
                   api_calls, llm_calls, pending, full_response, connected>>
    /\ UNCHANGED storeVars
    /\ UNCHANGED auxVars

\* the detector keeping the client's answer: it also stores the context
\* it returns as a chat log row
DetectAndFetch_logged(db_ok, o1, o2) ==
    /\ pc = "client"
    /\ LET d == DetectAndFetchClientData(integrations, request.tenant_id,
                                         AgentMessage(request), o1, o2)
       IN /\ client_context' = d.context
          /\ api_calls' = d.calls
          /\ chat_logs' = (IF d.context # <<>>
                           THEN Append(chat_logs, ChatLog(request.tenant_id,
                                                          request.message, d.context))
                           ELSE chat_logs)
          /\ pc' = "prompt"
    /\ UNCHANGED <<integrations, request, kb_context, system, reply, events,
                   failed_at, retrieval, llm_calls, pending, full_response, connected>>
    /\ UNCHANGED storeVars
    /\ UNCHANGED auxVars

\* client_context = _detect_and_fetch_client_data(tenant_id, message, db=db)
\* db_ok is whether the integrations query of the first call_client_api
\* succeeds; when it does not, the exception leaves call_client_api.
DetectAndFetch(db_ok, o1, o2) ==
    /\ pc = "client"
    /\ LET d == DetectAndFetchClientData(integrations, request.tenant_id,
                                         AgentMessage(request), o1, o2)
       IN IF d.calls # <<>> /\ ~db_ok
          THEN /\ Fail("integration_lookup")
               /\ UNCHANGED <<client_context, api_calls>>
          ELSE /\ client_context' = d.context
               /\ api_calls' = d.calls
               /\ pc' = "prompt"
               /\ UNCHANGED <<reply, events, failed_at>>
    /\ UNCHANGED <<integrations, chat_logs, request, kb_context, system,
                   retrieval, llm_calls, pending, full_response, connected>>
    /\ UNCHANGED storeVars
    /\ UNCHANGED auxVars

\* system = _build_system_prompt(...); prompt = ChatPromptTemplate...;
\* the chain formats the prompt and sends it to the model, whose output is
\* `out`.
Generate(out) ==
    /\ pc = "prompt"
    /\ system' = BuildSystemPrompt(kb_context, client_context)
    /\ LET m == PromptMessages(system', AgentMessage(request))
       IN IF ~m.ok
          THEN /\ Fail("template")
               /\ UNCHANGED <<llm_calls, pending>>
          ELSE /\ llm_calls' = Append(llm_calls, [system |-> m.system, human |-> m.human])
               /\ pending' = out
               /\ pc' = IF request.endpoint = "stream" THEN "stream" ELSE "invoke"
               /\ UNCHANGED <<reply, events, failed_at>>
    /\ UNCHANGED <<integrations, chat_logs, request, kb_context, client_context,
                   retrieval, api_calls, full_response, connected>>
    /\ UNCHANGED storeVars
    /\ UNCHANGED auxVars

\* chat_completion_endpoint after agent_chat was entered: chain.invoke
\* returns or raises, then the chat log is added and committed.  The
\* webhook returns the reply and writes no chat log.
Complete(gen_ok, commit_ok) ==
    /\ pc = "invoke"
    /\ IF ~gen_ok
       THEN /\ Fail("generation")
            /\ UNCHANGED <<chat_logs, pending>>
       ELSE IF request.endpoint = "webhook"
       THEN /\ reply' = [status |-> 200, body |-> Concat(pending)]
            /\ pending' = <<>>
            /\ pc' = "done"
            /\ UNCHANGED <<chat_logs, events, failed_at>>
       ELSE IF ~commit_ok
       THEN /\ Fail("chat_log")
            /\ pending' = <<>>
            /\ UNCHANGED chat_logs
       ELSE /\ chat_logs' = Append(chat_logs,
                    ChatLog(request.tenant_id, request.message, Concat(pending)))
            /\ reply' = [status |-> 200, body |-> Concat(pending)]
            /\ pending' = <<>>
            /\ pc' = "done"
            /\ UNCHANGED <<events, failed_at>>
    /\ UNCHANGED <<integrations, request, kb_context, client_context, system,
                   retrieval, api_calls, llm_calls, full_response, connected>>
    /\ UNCHANGED storeVars
    /\ UNCHANGED auxVars

\* one iteration of `async for chunk in agent_chat_stream(...)`
StreamChunk ==
    /\ pc = "stream"
    /\ pending # <<>>
    /\ pending' = Tail(pending)
    /\ IF Head(pending) # ""
       THEN /\ full_response' = Append(full_response, Head(pending))
            /\ events' = Append(events, ContentEvent(Head(pending)))
       ELSE UNCHANGED <<full_response, events>>
    /\ UNCHANGED <<integrations, chat_logs, pc, request, kb_context, client_context,
                   system, retrieval, api_calls, llm_calls, reply, failed_at,
                   connected>>
    /\ UNCHANGED storeVars
    /\ UNCHANGED auxVars

\* the model fails while streaming
StreamFail ==
    /\ pc = "stream"
    /\ Fail("generation")
    /\ UNCHANGED <<integrations, chat_logs, request, kb_context, client_context,
                   system, retrieval, api_calls, llm_calls, pending,
                   full_response, connected>>
    /\ UNCHANGED storeVars
    /\ UNCHANGED auxVars

\* the stream is exhausted: the chat log is added and committed
StreamFinish(commit_ok) ==
    /\ pc = "stream"
    /\ pending = <<>>
    /\ IF commit_ok
       THEN /\ chat_logs' = Append(chat_logs,
                    ChatLog(request.tenant_id, request.message, Concat(full_response)))
            /\ pc' = "done"
            /\ UNCHANGED <<reply, events, failed_at>>
       ELSE /\ Fail("chat_log")
            /\ UNCHANGED chat_logs
    /\ UNCHANGED <<integrations, request, kb_context, client_context, system,
                   retrieval, api_calls, llm_calls, pending, full_response,
                   connected>>
    /\ UNCHANGED storeVars
    /\ UNCHANGED auxVars

\* The consumer disconnects while the generator is suspended: at its yield
\* (the generator is closed, GeneratorExit) or waiting for the next chunk
\* (the task is cancelled, CancelledError).  An exception the handler does
\* not catch unwinds event_generator and chat_stream.
Disconnect(exc) ==
    /\ pc = "stream"
    /\ connected
    /\ connected' = FALSE
    /\ IF CaughtByHandler(exc)
       THEN Fail(exc)
       ELSE /\ pc' = "cancelled"
            /\ UNCHANGED <<reply, events, failed_at>>
    /\ UNCHANGED <<integrations, chat_logs, request, kb_context, client_context,
                   system, retrieval, api_calls, llm_calls, pending,
                   full_response>>
    /\ UNCHANGED storeVars
    /\ UNCHANGED auxVars

(***************************************************************************)
(* Upload endpoint: routes/upload.py                                       *)
(***************************************************************************)
\* _get_loader: the suffixes it has a loader for
SupportedSuffix(filename) ==
    filename # <<>> /\ filename[Len(filename)] \in {".pdf", ".txt", ".md", ".docx"}

SavedFile(tenant_id, filename) == [tenant_id |-> tenant_id, name |-> filename]
KnowledgeDocument(tenant_id, filename) == [tenant_id |-> tenant_id, file_path |-> filename]

\* what ingest_document does in upload_document: "ok", "value_error" (the
\* loader raises ValueError) or "error" (any other exception of loading,
\* embedding or the store write)
IngestOutcomes == {"ok", "value_error", "error"}

\* upload_document(tenant_id, file, tenant, db) up to `await file.read()`:
\* the tenant and file name checks and mkdir; the handler is then suspended
\* with nothing written.
UploadDocument ==
    /\ pc = "start"
    /\ request.endpoint = "upload"
    /\ IF ~TenantMatches(request.auth, request.tenant_id)
       THEN /\ reply' = [status |-> 403, body |-> <<"tenant_id does not match credentials">>]
            /\ failed_at' = "validation"
            /\ pc' = "done"
       ELSE IF request.file.filename = <<>>
       THEN /\ reply' = [status |-> 400, body |-> <<"File name is required">>]
            /\ failed_at' = "validation"
            /\ pc' = "done"
       ELSE /\ pc' = "read"
            /\ UNCHANGED <<reply, failed_at>>
    /\ UNCHANGED <<integrations, chat_logs, request, kb_context, client_context,
                   system, retrieval, api_calls, llm_calls, pending,
                   full_response, events, connected>>
    /\ UNCHANGED storeVars
    /\ UNCHANGED auxVars

\* upload_document from the return of file.read() on: the empty check, the
\* file write, ingest_document and the KnowledgeDocument row.  commit_ok is
\* whether the commit of the row succeeds.
UploadStore(ingest, commit_ok) ==
    /\ pc = "read"
    /\ pc' = "done"
    /\ LET f == request.file
           t == request.tenant_id
           suffix == f.filename[Len(f.filename)]
       IN IF ~f.has_bytes
          THEN /\ reply' = [status |-> 400, body |-> <<"File is empty">>]
               /\ failed_at' = "validation"
               /\ UNCHANGED <<saved_files, collections, ingested, knowledge_documents>>
          ELSE /\ saved_files' = saved_files \cup {SavedFile(t, f.filename)}
               /\ IF ~SupportedSuffix(f.filename)
                  THEN /\ reply' = [status |-> 400,
                                    body |-> <<"Unsupported file type for ingestion: ", suffix>>]
                       /\ failed_at' = "ingest"
                       /\ ingested' = [tenant_id |-> t, result |-> -1]
                       /\ UNCHANGED <<collections, knowledge_documents>>
                  ELSE IF ingest = "value_error"
                  THEN /\ reply' = [status |-> 400, body |-> <<"loader error">>]
                       /\ failed_at' = "ingest"
                       /\ ingested' = [tenant_id |-> t, result |-> -1]
                       /\ UNCHANGED <<collections, knowledge_documents>>
                  ELSE IF ingest = "error"
                  THEN /\ reply' = [status |-> 500, body |-> <<"Ingestion failed: ", "error">>]
                       /\ failed_at' = "ingest"
                       /\ ingested' = [tenant_id |-> t, result |-> -1]
                       /\ UNCHANGED <<collections, knowledge_documents>>
                  ELSE /\ collections' = [collections EXCEPT ![CollectionName(t)] =
                               @ \o [i \in 1..Len(f.content) |-> Chunk(f.content[i], t)]]
                       /\ ingested' = [tenant_id |-> t, result |-> Len(f.content)]
                       /\ IF commit_ok
                          THEN /\ knowledge_documents' = Append(knowledge_documents,
                                       KnowledgeDocument(t, f.filename))
                               /\ reply' = [status |-> 200, body |-> <<"ok">>]
                               /\ UNCHANGED failed_at
                          ELSE /\ reply' = [status |-> 500, body |-> <<"Internal Server Error">>]
                               /\ failed_at' = "knowledge_document"
                               /\ UNCHANGED knowledge_documents
    /\ UNCHANGED <<integrations, chat_logs, request, kb_context, client_context,
                   system, retrieval, api_calls, llm_calls, pending,
                   full_response, events, connected, search_result, runs>>

(***************************************************************************)
(* Context assembler as a pure function                                    *)
(***************************************************************************)
CtxTokens == {"doc", "{", "}", FallbackSentence, "\n\n[Client system unavailable: "}
Contexts == SeqsUpTo(CtxTokens, MaxCtxLen)

BuildPrompt ==
    /\ pc = "assemble"
    /\ system' = BuildSystemPrompt(kb_context, client_context)
    /\ pc' = "assembled"
    /\ UNCHANGED <<integrations, chat_logs, request, kb_context, client_context,
                   retrieval, api_calls, llm_calls, pending, full_response,
                   events, reply, failed_at, connected>>
    /\ UNCHANGED storeVars
    /\ UNCHANGED auxVars

(***************************************************************************)
(* chat and chat_stream on the same inputs                                 *)
(***************************************************************************)
\* outcomes worth telling apart for a request: all of them when the request
\* can be made, one when the message never leads to it
OutcomesIf(made) == IF made THEN ApiOutcomes ELSE {Transport(<<"Read timed out.">>)}

\* the outcomes of a client request the runs are made with: no
\* answer, an empty 2xx answer, a JSON 2xx answer, a 3xx and a 4xx answer
EquivOutcomes ==
    {o \in ApiOutcomes :
        \/ o.kind = "transport"
        \/ o.status = 200 /\ (o.raw = <<>> \/ Len(o.raw) = 3)
        \/ o.status # 200 /\ o.raw = <<"shipped">>}

EquivEnvs(store, tenant_id, message) ==
    [search : UNION {SearchDocuments(store, tenant_id, DefaultK, ok) : ok \in BOOLEAN},
     o1 : OutcomesIf(OrderSearch(Lower(message)).matched) \cap EquivOutcomes,
     o2 : OutcomesIf(WantsCustomer(Lower(message))) \cap EquivOutcomes,
     out : LLMOutputs]

\* calls of the agent for one tenant; the stores hold the other tenant's
\* chunks too
AgentRequests ==
    {[endpoint |-> "agent", auth |-> "t1", tenant_id |-> "t1", message |-> m,
      file |-> NoFile] : m \in TurnMessages}

\* chat() in an environment e: what the store, the client system and the
\* model answer when asked
RunChat(e) ==
    /\ pc = "equiv"
    /\ runs' = [env |-> e,
                chat |-> <<Chat(integrations, request.tenant_id, request.message,
                                e.search, e.o1, e.o2, e.out)>>,
                stream |-> <<>>]
    /\ pc' = "equiv_chat"
    /\ UNCHANGED <<integrations, chat_logs, request, kb_context, client_context,
                   system, retrieval, api_calls, llm_calls, pending,
                   full_response, events, reply, failed_at, connected,
                   saved_files, knowledge_documents>>
    /\ UNCHANGED storeVars

\* chat_stream() in the environment chat() ran in, up to its first
\* suspension: the search, the client calls and the model call are made and
\* the fragments of chain.astream are still to come
RunChatStream ==
    /\ pc = "equiv_chat"
    /\ LET st == ChatStream(integrations, request.tenant_id, request.message,
                            runs.env.search, runs.env.o1, runs.env.o2, runs.env.out)
       IN /\ runs' = [runs EXCEPT !.stream = <<[st EXCEPT !.fragments = <<>>]>>]
          /\ pending' = st.fragments
          /\ pc' = IF st.raised THEN "equiv_done" ELSE "equiv_stream"
    /\ UNCHANGED <<integrations, chat_logs, request, kb_context, client_context,
                   system, retrieval, api_calls, llm_calls,
                   full_response, events, reply, failed_at, connected,
                   saved_files, knowledge_documents>>
    /\ UNCHANGED storeVars

\* async for chunk in chain.astream(...): yield chunk, one fragment per
\* resumption
ChatStreamYield ==
    /\ pc = "equiv_stream"
    /\ pending # <<>>
    /\ runs' = [runs EXCEPT !.stream[1].fragments = Append(@, Head(pending))]
    /\ pending' = Tail(pending)
    /\ UNCHANGED <<integrations, chat_logs, pc, request, kb_context, client_context,
                   system, retrieval, api_calls, llm_calls,
                   full_response, events, reply, failed_at, connected,
                   saved_files, knowledge_documents>>
    /\ UNCHANGED storeVars

\* astream is exhausted: the generator ends
ChatStreamReturn ==
    /\ pc = "equiv_stream"
    /\ pending = <<>>
    /\ pc' = "equiv_done"
    /\ UNCHANGED <<integrations, chat_logs, request, kb_context, client_context,
                   system, retrieval, api_calls, llm_calls, pending,
                   full_response, events, reply, failed_at, connected>>
    /\ UNCHANGED storeVars
    /\ UNCHANGED auxVars

\* the consumer closes the generator, or its task is cancelled, while it
\* is suspended: the fragments not yet produced are never yielded
ChatStreamClose ==
    /\ pc = "equiv_stream"
    /\ pending' = <<>>
    /\ pc' = "equiv_closed"
    /\ UNCHANGED <<integrations, chat_logs, request, kb_context, client_context,
                   system, retrieval, api_calls, llm_calls,
                   full_response, events, reply, failed_at, connected>>
    /\ UNCHANGED storeVars
    /\ UNCHANGED auxVars

(***************************************************************************)
(* call_client_api as a function of the integrations table                 *)
(***************************************************************************)
BaseUrlOf(type) ==
    IF type = "orders" THEN <<"https://shop.example">> ELSE <<"https://crm.example", "/">>

\* rows of every shape the columns allow: api_key and auth_type nullable,
\* auth_type free text
IntegrationRows ==
    {Row(t, ty, BaseUrlOf(ty), k, a) :
        t \in Tenants, ty \in {"orders", "crm"}, k \in {"k1", Null},
        a \in {"bearer", "Bearer", "api_key", "basic", Null}}

CallTables == IntegrationTables \cup {<<r>> : r \in IntegrationRows}

CallRequests ==
    {[endpoint |-> "call", auth |-> t, tenant_id |-> t, message |-> <<>>,
      file |-> NoFile] : t \in Tenants}

CallEndpoints == {OrderEndpoint(<<"7">>), <<"customers", "/", "me">>}

\* call_client_api(tenant_id, endpoint, "GET", integration_type=..., db=None)
CallClientApi(endpoint, integration_type, outcome) ==
    /\ pc = "call"
    /\ api_calls' = <<ApiCall(endpoint, integration_type,
                              CallImpl(integrations, request.tenant_id, endpoint,
                                       integration_type, outcome))>>
    /\ pc' = "called"
    /\ UNCHANGED <<integrations, chat_logs, request, kb_context, client_context,
                   system, retrieval, llm_calls, pending, full_response, events,
                   reply, failed_at, connected>>
    /\ UNCHANGED storeVars
    /\ UNCHANGED auxVars

(***************************************************************************)
(* _detect_and_fetch_client_data as a function of the message              *)
(***************************************************************************)
\* pieces a message is made of.  Messages about an order: the word, the
\* signs the pattern looks at and "-" as one it does not.
OrderTokens == {"Order", "#", "number", ":", " ", "-", "7"}

\* Messages about the customer, with pieces of an order reference too
CustomerTokens == {"customer", "My", " ", "account", "order", "id", "7"}

\* the integrations table the detector runs with: the tenant has a config
DetectTable == << Row("t1", "orders", <<"https://shop.example">>, "k1", "bearer") >>

DetectMessages ==
    SeqsUpTo(OrderTokens, MaxMsgLen) \cup SeqsUpTo(CustomerTokens, MaxMsgLen)

DetectRequests ==
    {[endpoint |-> "detect", auth |-> "t1", tenant_id |-> "t1", message |-> m,
      file |-> NoFile] : m \in DetectMessages}

\* _detect_and_fetch_client_data(tenant_id, message, db=db); o1 and o2 are
\* the outcomes of the requests it may send
DetectLiveData(o1, o2) ==
    /\ pc = "detect"
    /\ LET d == DetectAndFetchClientData(integrations, request.tenant_id,
                                         request.message, o1, o2)
       IN /\ client_context' = d.context
          /\ api_calls' = d.calls
    /\ pc' = "detected"
    /\ UNCHANGED <<integrations, chat_logs, request, kb_context, system,
                   retrieval, llm_calls, pending, full_response, events,
                   reply, failed_at, connected>>
    /\ UNCHANGED storeVars
    /\ UNCHANGED auxVars

(***************************************************************************)
(* Specifications                                                          *)
(***************************************************************************)
IdleTurn ==
    /\ integrations = <<>>
    /\ chat_logs = <<>>
    /\ request = NoRequest
    /\ kb_context = <<>>
    /\ client_context = <<>>
    /\ system = <<>>
    /\ retrieval = NoRetrieval
    /\ api_calls = <<>>
    /\ llm_calls = <<>>
    /\ pending = <<>>
    /\ full_response = <<>>
    /\ events = <<>>
    /\ reply = NoReply
    /\ failed_at = "none"
    /\ connected = TRUE
    /\ saved_files = {}
    /\ knowledge_documents = <<>>
    /\ runs = NoRuns

InitStore ==
    /\ collections = [n \in CollectionNames |-> <<>>]
    /\ search_result = NoSearch
    /\ ingested = NoIngest
    /\ pc = "idle"
    /\ IdleTurn

NextStore ==
    \/ \E t \in Tenants, f \in Files, add_ok \in BOOLEAN : IngestDocument(t, f, add_ok)
    \/ \E t \in Tenants, k \in 1..MaxK, store_ok \in BOOLEAN : Search(t, k, store_ok)

SpecStore == InitStore /\ [][NextStore]_vars

InitPrompt ==
    /\ collections = [n \in CollectionNames |-> <<>>]
    /\ search_result = NoSearch
    /\ ingested = NoIngest
    /\ pc = "assemble"
    /\ integrations = <<>>
    /\ chat_logs = <<>>
    /\ request = NoRequest
    /\ kb_context \in Contexts
    /\ client_context \in Contexts
    /\ system = <<>>
    /\ retrieval = NoRetrieval
    /\ api_calls = <<>>
    /\ llm_calls = <<>>
    /\ pending = <<>>
    /\ full_response = <<>>
    /\ events = <<>>
    /\ reply = NoReply
    /\ failed_at = "none"
    /\ connected = TRUE
    /\ saved_files = {}
    /\ knowledge_documents = <<>>
    /\ runs = NoRuns

NextPrompt == BuildPrompt

SpecPrompt == InitPrompt /\ [][NextPrompt]_vars

InitTurn ==
    /\ collections \in TurnStores
    /\ search_result = NoSearch
    /\ ingested = NoIngest
    /\ \/ /\ request \in Requests \cup WebhookRequests
          /\ integrations \in IntegrationTables
       \/ /\ request \in UploadRequests
          /\ integrations = <<>>
    /\ chat_logs = <<>>
    /\ pc = "start"
    /\ kb_context = <<>>
    /\ client_context = <<>>
    /\ system = <<>>
    /\ retrieval = NoRetrieval
    /\ api_calls = <<>>
    /\ llm_calls = <<>>
    /\ pending = <<>>
    /\ full_response = <<>>
    /\ events = <<>>
    /\ reply = NoReply
    /\ failed_at = "none"
    /\ connected = TRUE
    /\ saved_files = {}
    /\ knowledge_documents = <<>>
    /\ runs = NoRuns

NextTurn ==
    \/ Validate
    \/ UploadDocument
    \/ \E ingest \in IngestOutcomes, commit_ok \in BOOLEAN : UploadStore(ingest, commit_ok)
    \/ \E store_ok \in BOOLEAN : GetKbContext(store_ok)
    \/ \E db_ok \in BOOLEAN, o1, o2 \in ApiOutcomes : DetectAndFetch(db_ok, o1, o2)
    \/ \E out \in LLMOutputs : Generate(out)
    \/ \E gen_ok, commit_ok \in BOOLEAN : Complete(gen_ok, commit_ok)
    \/ StreamChunk
    \/ StreamFail
    \/ \E commit_ok \in BOOLEAN : StreamFinish(commit_ok)
    \/ \E exc \in {"CancelledError", "GeneratorExit"} : Disconnect(exc)

SpecTurn == InitTurn /\ [][NextTurn]_vars

InitEquiv ==
    /\ collections \in TurnStores
    /\ search_result = NoSearch
    /\ ingested = NoIngest
    /\ integrations \in IntegrationTables
    /\ chat_logs = <<>>
    /\ pc = "equiv"
    /\ request \in AgentRequests
    /\ kb_context = <<>>
    /\ client_context = <<>>
    /\ system = <<>>
    /\ retrieval = NoRetrieval
    /\ api_calls = <<>>
    /\ llm_calls = <<>>
    /\ pending = <<>>
    /\ full_response = <<>>
    /\ events = <<>>
    /\ reply = NoReply
    /\ failed_at = "none"
    /\ connected = TRUE
    /\ saved_files = {}
    /\ knowledge_documents = <<>>
    /\ runs = NoRuns

NextEquiv ==
    \/ \E e \in EquivEnvs(collections, request.tenant_id, request.message) : RunChat(e)
    \/ RunChatStream
    \/ ChatStreamYield
    \/ ChatStreamReturn
    \/ ChatStreamClose

SpecEquiv == InitEquiv /\ [][NextEquiv]_vars

InitCall ==
    /\ collections \in TurnStores
    /\ search_result = NoSearch
    /\ ingested = NoIngest
    /\ integrations \in CallTables
    /\ chat_logs = <<>>
    /\ pc = "call"
    /\ request \in CallRequests
    /\ kb_context = <<>>
    /\ client_context = <<>>
    /\ system = <<>>
    /\ retrieval = NoRetrieval
    /\ api_calls = <<>>
    /\ llm_calls = <<>>
    /\ pending = <<>>
    /\ full_response = <<>>
    /\ events = <<>>
    /\ reply = NoReply
    /\ failed_at = "none"
    /\ connected = TRUE
    /\ saved_files = {}
    /\ knowledge_documents = <<>>
    /\ runs = NoRuns

NextCall ==
    \E e \in CallEndpoints, ty \in {Null, "orders", "crm"}, o \in ApiOutcomes :
        CallClientApi(e, ty, o)

SpecCall == InitCall /\ [][NextCall]_vars

InitDetect ==
    /\ collections = [c \in CollectionNames |-> <<>>]
    /\ search_result = NoSearch
    /\ ingested = NoIngest
    /\ integrations = DetectTable
    /\ chat_logs = <<>>
    /\ pc = "detect"
    /\ request \in DetectRequests
    /\ kb_context = <<>>
    /\ client_context = <<>>
    /\ system = <<>>
    /\ retrieval = NoRetrieval
    /\ api_calls = <<>>
    /\ llm_calls = <<>>
    /\ pending = <<>>
    /\ full_response = <<>>
    /\ events = <<>>
    /\ reply = NoReply
    /\ failed_at = "none"
    /\ connected = TRUE
    /\ saved_files = {}
    /\ knowledge_documents = <<>>
    /\ runs = NoRuns

NextDetect ==
    \E o1 \in OutcomesIf(OrderSearch(Lower(request.message)).matched) \cap EquivOutcomes,
       o2 \in OutcomesIf(WantsCustomer(Lower(request.message))) \cap EquivOutcomes :
        DetectLiveData(o1, o2)

SpecDetect == InitDetect /\ [][NextDetect]_vars

Init == InitTurn
Next == NextTurn
Spec == SpecTurn

(***************************************************************************)
(* Properties                                                              *)
(***************************************************************************)
\* the chunks of every collection, over all tenants
StoredFor(tenant_id) ==
    {c \in UNION {Range(collections[n]) : n \in CollectionNames} :
        c.ingested_for = tenant_id}

\* C1: every chunk search_documents(query, B) returns was ingested with
\* tenant_id = B, whatever was ingested for the other tenants.
C1_TenantIsolation ==
    \A i \in 1..Len(search_result.docs) :
        search_result.docs[i].ingested_for = search_result.tenant_id

\* B's search returned a chunk whose text tenant A ingested as well
C1_Witness ==
    /\ search_result.tenant_id = "t2"
    /\ search_result.docs # <<>>
    /\ \E c \in StoredFor("t1") : c.page_content = search_result.docs[1].page_content

IsSuffix(suf, t) ==
    Len(suf) <= Len(t) /\ SubSeq(t, Len(t) - Len(suf) + 1, Len(t)) = suf

\* C2: for every kb_context and client_context the assembled prompt holds
\* the fallback sentence verbatim, and the fallback instruction ends it.
C2_FallbackAlwaysLast ==
    pc = "assembled" =>
        /\ Contains(system, <<FallbackSentence>>)
        /\ IsSuffix(FallbackInstruction, system)

\* a prompt assembled from two non-empty contexts
C2_Witness ==
    /\ pc = "assembled"
    /\ kb_context # <<>>
    /\ client_context # <<>>
    /\ FallbackSentence \notin Range(kb_context) \cup Range(client_context)

\* C3: a failure of the embedding call or of the store during the turn
\* leaves kb_context empty and moves the turn on to live-data detection;
\* no error reaches the caller from the retrieval step.
C3_RetrievalNeverAborts ==
    [][(pc = "kb" /\ retrieval'.failed) =>
            /\ pc' = "client"
            /\ kb_context' = <<>>
            /\ failed_at' = "none"
            /\ events' = events
            /\ reply' = reply]_vars

\* retrieval failed on a non-empty knowledge base and the model was called
C3_Witness ==
    /\ retrieval.failed
    /\ collections[CollectionName(request.tenant_id)] # <<>>
    /\ kb_context = <<>>
    /\ Len(llm_calls) = 1

\* C4: one run of the detector makes at most one client API call, and none
\* to /customers/me when the order pattern matches the message.
C4_FirstMatchWins ==
    /\ Len(api_calls) <= 1
    /\ OrderSearch(Lower(request.message)).matched =>
          \A i \in 1..Len(api_calls) : api_calls[i].endpoint # CustomerEndpoint

IsOrderCall(call) == SubSeq(call.endpoint, 1, 3) = <<"/", "orders", "/">>

\* C5: when the tenant has an "orders" integration, the order lookup is
\* sent with that integration.
C5_OrderLookupUsesOrdersConfig ==
    \A i \in 1..Len(api_calls) :
        (/\ IsOrderCall(api_calls[i])
         /\ GetTenantIntegration(integrations, request.tenant_id, "orders") # 0)
        => /\ api_calls[i].http # <<>>
           /\ integrations[api_calls[i].http[1].row].type = "orders"

\* a request that ended in a transport failure or a non-2xx status
CallFailed(call) ==
    /\ call.http # <<>>
    /\ \/ call.result.status_code = NoStatus
       \/ ~(200 <= call.result.status_code /\ call.result.status_code < 300)

IsUnavailableLine(ctx) ==
    ctx # <<>> /\ Head(ctx) = "\n\n[Client system unavailable: "

\* C6: when a request of the detector ends in a transport failure or a
\* non-2xx status, the context it returns is a "Client system unavailable"
\* line.
C6_ErrorsSurfaced ==
    (\E i \in 1..Len(api_calls) : CallFailed(api_calls[i]))
        => IsUnavailableLine(client_context)

\* C7: whatever the client API step returned, the turn calls the generation
\* model exactly once and no exception ends it before that call.  (Stated
\* for turns whose knowledge-base context is empty, so that the client API
\* outcome is the only input that varies.)
C7_GenerationAfterClientStep ==
    (/\ pc \in {"invoke", "stream", "done", "cancelled"}
     /\ failed_at \notin {"validation", "retrieval", "integration_lookup"}
     /\ kb_context = <<>>)
    => /\ Len(llm_calls) = 1
       /\ failed_at # "template"

\* C8: the completion endpoint answers a non-blank, authorised message with
\* an error only when the generation model failed.
C8_OnlyGenerationFails ==
    (/\ request.endpoint = "completion"
     /\ pc = "done"
     /\ failed_at # "validation"
     /\ reply.status # 200)
    => failed_at = "generation"

\* C9: an error event of the stream carries an event type that no content
\* event carries.
C9_ErrorEventDistinct ==
    \A i \in 1..Len(events) :
        events[i].origin = "error" =>
            events[i].sse.event # ContentEvent("Hello").sse.event

\* C10: once the consumer has disconnected, no event is emitted, no
\* fragment is taken from the model, and the generator is unwound.
C10_NoFragmentAfterDisconnect ==
    [][(~connected') =>
            /\ events' = events
            /\ full_response' = full_response
            /\ pending' = pending
            /\ pc' = "cancelled"]_vars

\* the consumer left after a fragment was delivered and before the last one
C10_Witness ==
    /\ ~connected
    /\ Len(events) >= 1
    /\ pending # <<>>
    /\ \E i \in 1..Len(pending) : pending[i] # ""

\* C11: when a streaming turn is interrupted (the consumer disconnects or
\* the model fails) after fragments were delivered, a chat log holds the
\* fragments delivered so far.
C11_PartialOutputLogged ==
    (/\ request.endpoint = "stream"
     /\ pc \in {"done", "cancelled"}
     /\ full_response # <<>>
     /\ (~connected \/ failed_at = "generation"))
    => \E i \in 1..Len(chat_logs) :
          chat_logs[i] = ChatLog(request.tenant_id, request.message,
                                 Concat(full_response))

\* the text of the content events sent to the client, in order
RECURSIVE DeliveredText(_)
DeliveredText(evs) ==
    IF evs = <<>> THEN <<>>
    ELSE (IF Head(evs).origin = "content" THEN Head(evs).sse.data ELSE <<>>)
            \o DeliveredText(Tail(evs))

\* C12: a streaming turn that completes leaves exactly one chat log, for the
\* request's tenant_id and message, whose response is the fragments sent to
\* the client joined in order; the log is written when no fragment is left.
C12_LogEqualsDelivered ==
    /\ (request.endpoint = "stream" /\ pc = "done" /\ failed_at = "none")
          => chat_logs = <<ChatLog(request.tenant_id, request.message,
                                   DeliveredText(events))>>
    /\ (request.endpoint = "stream" /\ chat_logs # <<>>)
          => pending = <<>> /\ pc = "done"

\* a completed stream that delivered two different fragments, with its log
C12_Witness ==
    /\ request.endpoint = "stream"
    /\ pc = "done"
    /\ failed_at = "none"
    /\ Len(events) = 2
    /\ events[1].sse.data = <<"Hello">>
    /\ events[2].sse.data = <<" there">>
    /\ Len(chat_logs) = 1

\* C13: on the same inputs a chat_stream that runs to its end makes the
\* same search and client API calls as chat, sends the same messages to the
\* model, fails when chat fails, and the join of its fragments is the text
\* chat returns.
C13_StreamEquivalentToChat ==
    pc = "equiv_done" =>
        LET c == runs.chat[1]
            st == runs.stream[1]
        IN /\ st.searches = c.searches
           /\ st.api_calls = c.api_calls
           /\ st.llm_calls = c.llm_calls
           /\ st.raised = c.raised
           /\ Concat(st.fragments) = c.returned

\* both ran with a client API call, a model call and a two-fragment answer
C13_Witness ==
    /\ pc = "equiv_done"
    /\ runs.chat[1].api_calls # <<>>
    /\ Len(runs.stream[1].llm_calls) = 1
    /\ Len(runs.stream[1].fragments) >= 2
    /\ runs.chat[1].returned # <<>>

\* C14: a blank message (empty or whitespace only) ends the request at the
\* entry point: no retrieval, no client API call, no model call and no chat
\* log happen for it.
C14_BlankRejectedEarly ==
    (/\ request.endpoint \in {"stream", "completion", "webhook"}
     /\ \A i \in 1..Len(request.message) : request.message[i] = " ")
    => /\ pc \in {"start", "done"}
       /\ pc = "done" => failed_at = "validation"
       /\ ~retrieval.done
       /\ api_calls = <<>>
       /\ llm_calls = <<>>
       /\ chat_logs = <<>>
       /\ events = <<>>

\* a whitespace-only message was answered
C14_Witness ==
    /\ request.endpoint \in {"stream", "completion", "webhook"}
    /\ request.message = <<" ">>
    /\ pc = "done"

\* C15: a chat, chat completion or upload request whose tenant_id is not the
\* authenticated tenant's ends before anything is read or written: no
\* retrieval, client API call, model call, chat log, saved file, ingest or
\* document row; and whatever a request writes carries the authenticated
\* tenant's id.
C15_ForeignTenantRejected ==
    /\ (/\ request.endpoint \in {"stream", "completion", "upload"}
        /\ request.auth # request.tenant_id)
       => /\ pc \in {"start", "done"}
          /\ ~retrieval.done
          /\ api_calls = <<>>
          /\ llm_calls = <<>>
          /\ chat_logs = <<>>
          /\ saved_files = {}
          /\ ingested = NoIngest
          /\ knowledge_documents = <<>>
    /\ request.endpoint \in {"stream", "completion", "upload"}
       => /\ \A f \in saved_files : f.tenant_id = request.auth
          /\ \A i \in 1..Len(knowledge_documents) :
                knowledge_documents[i].tenant_id = request.auth
          /\ \A i \in 1..Len(chat_logs) : chat_logs[i].tenant_id = request.auth
          /\ ingested # NoIngest => ingested.tenant_id = request.auth

\* an upload of a loadable file for another tenant was answered
C15_Witness ==
    /\ request.endpoint = "upload"
    /\ request.auth # request.tenant_id
    /\ request.file.filename = <<"faq", ".txt">>
    /\ request.file.content # <<>>
    /\ pc = "done"
    /\ reply.status = 403

\* the tenant has no integration row (of the type asked for, if any)
NoConfig(table, tenant_id, integration_type) ==
    ~ \E i \in 1..Len(table) :
          /\ table[i].tenant_id = tenant_id
          /\ (integration_type = Null \/ table[i].type = integration_type)

\* C16: when no integration config is found for the tenant, with or without
\* a type filter, call_client_api returns ok = false with the error
\* "No integration configured" and issues no HTTP request.
C16_NoIntegrationNoRequest ==
    \A i \in 1..Len(api_calls) :
        NoConfig(integrations, request.tenant_id, api_calls[i].integration_type)
        => /\ api_calls[i].http = <<>>
           /\ api_calls[i].result.ok = FALSE
           /\ api_calls[i].result.error = PyText(<<"No integration configured">>)

\* a call filtered by a type the tenant has no row of, though it has another
C16_Witness ==
    /\ pc = "called"
    /\ api_calls[1].integration_type # Null
    /\ NoConfig(integrations, request.tenant_id, api_calls[1].integration_type)
    /\ ~NoConfig(integrations, request.tenant_id, Null)

KbHeader == "\nCompany documents:\n"
LiveHeader == "\nLive data from client system (use this to answer):\n"

PositionsOf(tok, t) == {i \in 1..Len(t) : t[i] = tok}

\* C17: the prompt has the company-documents section iff kb_context is not
\* empty and the live-data section iff the live-data context is not empty
\* (a response or an error line alike); each section holds its context, and
\* the documents come before the live data.
C17_SectionsIffContext ==
    pc = "assembled" =>
        /\ (PositionsOf(KbHeader, system) # {}) <=> (kb_context # <<>>)
        /\ (PositionsOf(LiveHeader, system) # {}) <=> (client_context # <<>>)
        /\ kb_context # <<>> => Contains(system, <<KbHeader>> \o kb_context)
        /\ client_context # <<>> => Contains(system, <<LiveHeader>> \o client_context)
        /\ \A i \in PositionsOf(KbHeader, system), j \in PositionsOf(LiveHeader, system) :
              i < j

\* a prompt assembled from documents and an error line of the client system
C17_Witness ==
    /\ pc = "assembled"
    /\ kb_context = <<"doc">>
    /\ client_context # <<>>
    /\ Head(client_context) = "\n\n[Client system unavailable: "

\* C19: the client API step changes no integration config, no collection
\* of the vector store and no database table, whatever the call returns.
C19_ClientStepIsPassThrough ==
    [][pc = "client" =>
            /\ integrations' = integrations
            /\ collections' = collections
            /\ chat_logs' = chat_logs
            /\ knowledge_documents' = knowledge_documents
            /\ saved_files' = saved_files]_vars

\* the detector returned the body of a 2xx answer
C19_Witness ==
    /\ pc = "prompt"
    /\ api_calls # <<>>
    /\ api_calls[1].result.ok
    /\ Truthy(api_calls[1].result.body)
    /\ client_context # <<>>
    /\ chat_logs = <<>>

HeaderValues(headers, name) == {h[2] : h \in {x \in headers : x[1] = name}}

\* C20 as claimed: every request carries exactly one credential header,
\* Authorization: Bearer <key> when auth_type is "bearer", X-API-Key: <key>
\* for every other auth_type.
C20_OneCredentialHeader ==
    \A i \in 1..Len(api_calls) :
        api_calls[i].http # <<>> =>
            LET req == api_calls[i].http[1]
                row == integrations[req.row]
            IN IF row.auth_type = "bearer"
               THEN /\ HeaderValues(req.headers, "Authorization") = {<<"Bearer ", row.api_key>>}
                    /\ HeaderValues(req.headers, "X-API-Key") = {}
               ELSE /\ HeaderValues(req.headers, "X-API-Key") = {<<row.api_key>>}
                    /\ HeaderValues(req.headers, "Authorization") = {}

\* C20 amended: with an api_key set, the request carries exactly one
\* credential header: Authorization: Bearer <key> when auth_type is
\* "bearer" in any letter case, X-API-Key: <key> for every other auth_type,
\* an unset one included; with no api_key it carries no credential header.
C20_CredentialHeaderByAuthType ==
    \A i \in 1..Len(api_calls) :
        api_calls[i].http # <<>> =>
            LET req == api_calls[i].http[1]
                row == integrations[req.row]
            IN IF row.api_key = Null
               THEN /\ HeaderValues(req.headers, "Authorization") = {}
                    /\ HeaderValues(req.headers, "X-API-Key") = {}
               ELSE IF row.auth_type \in {"bearer", "Bearer"}
               THEN /\ HeaderValues(req.headers, "Authorization") = {<<"Bearer ", row.api_key>>}
                    /\ HeaderValues(req.headers, "X-API-Key") = {}
               ELSE /\ HeaderValues(req.headers, "X-API-Key") = {<<row.api_key>>}
                    /\ HeaderValues(req.headers, "Authorization") = {}

\* a request sent for a row with a key and auth_type "Bearer"
C20_Witness ==
    /\ pc = "called"
    /\ api_calls[1].http # <<>>
    /\ integrations[api_calls[1].http[1].row].auth_type = "Bearer"
    /\ integrations[api_calls[1].http[1].row].api_key # Null

SeparatorsOnly(s, from, to, S) == \A j \in from..to : s[j] \in S

\* <<i, c>>: an order reference starts with the word at i and its digits
\* start at c; Seps is what may stand between the word or the optional
\* "#", "number" or "id" and the digits (whitespace alone between the word
\* and that optional part)
OrderReferences(s, Seps) ==
    {p \in (1..Len(s)) \X (1..Len(s)) :
        /\ s[p[1]] \in {"order", "Order"}
        /\ p[1] < p[2]
        /\ s[p[2]] = "7"
        /\ \/ SeparatorsOnly(s, p[1] + 1, p[2] - 1, Seps)
           \/ \E k \in (p[1] + 1)..(p[2] - 1) :
                 /\ s[k] \in {"#", "number", "id"}
                 /\ SeparatorsOnly(s, p[1] + 1, k - 1, {" "})
                 /\ SeparatorsOnly(s, k + 1, p[2] - 1, Seps)}

\* the digits of the first order reference: the whole run starting at c
FirstReferenceId(s, Seps) ==
    LET refs == OrderReferences(s, Seps)
        p == CHOOSE x \in refs : \A y \in refs : x[1] <= y[1]
        last == CHOOSE e \in p[2]..Len(s) :
                    /\ SeparatorsOnly(s, p[2], e, {"7"})
                    /\ (e = Len(s) \/ s[e + 1] # "7")
    IN SubSeq(s, p[2], last)

MentionsCustomer(s) ==
    \/ \E i \in 1..Len(s) : s[i] = "customer"
    \/ \E i \in 1..(Len(s) - 2) :
          s[i] \in {"my", "My"} /\ s[i + 1] = " " /\ s[i + 2] = "account"

\* the classification of the message under a reading Seps of what may
\* separate the parts of an order reference
Classified(Seps) ==
    pc = "detected" =>
        IF OrderReferences(request.message, Seps) # {}
        THEN /\ api_calls # <<>>
             /\ api_calls[1].endpoint
                    = <<"/", "orders", "/">> \o FirstReferenceId(request.message, Seps)
             /\ \A i \in 1..Len(api_calls[1].http) : api_calls[1].http[i].method = "GET"
        ELSE IF MentionsCustomer(request.message)
        THEN /\ Len(api_calls) = 1
             /\ api_calls[1].endpoint = <<"/", "customers", "/", "me">>
             /\ \A i \in 1..Len(api_calls[1].http) : api_calls[1].http[i].method = "GET"
        ELSE /\ api_calls = <<>>
             /\ client_context = <<>>

\* C21 as claimed: a message with an order reference ("order" in any letter
\* case, optionally "#", "number" or "id", then punctuation or whitespace,
\* then digits) makes GET /orders/{id} the first client API call, id being
\* the digits; a message without one that contains "customer" or
\* "my account" makes the single call GET /customers/me; any other message
\* makes no call and the live-data context is empty.
C21_PunctuationOrderReference == Classified({" ", ":", "-"})

\* C21 amended: the same with colons and whitespace as the only characters
\* that may stand between the word, the optional "#", "number" or "id" and
\* the digits; any other punctuation there makes it no order reference.
C21_MessageClassification == Classified({" ", ":"})

\* "Order number 7" was classified and its request sent
C21_Witness ==
    /\ pc = "detected"
    /\ request.message = <<"Order", " ", "number", " ", "7">>
    /\ api_calls # <<>>
    /\ api_calls[1].endpoint = <<"/", "orders", "/", "7">>
    /\ api_calls[1].http # <<>>

\* C22: every result of call_client_api is either a success or an error:
\* ok = true implies error is null and ok = false implies error is not null.
C22_SuccessXorError ==
    \A i \in 1..Len(api_calls) :
        /\ api_calls[i].result.ok => api_calls[i].result.error = PyNone
        /\ ~api_calls[i].result.ok => api_calls[i].result.error # PyNone

\* C23: the system message the model receives is the text
\* _build_system_prompt returned, and no turn fails in formatting the prompt.
C23_SystemMessageIsBuiltPrompt ==
    /\ failed_at # "template"
    /\ \A i \in 1..Len(llm_calls) : llm_calls[i].system = system
====
